---- MODULE Spec2Model ----
(***************************************************************************)
(* A model of satusehat-sdk: the OAuth token cache (src/auth/index.ts),    *)
(* the generic FHIR resource builder and its error type                    *)
(* (resources/fhir), and the client that shares one OAuth object among all *)
(* builders (src/client.ts).                                               *)
(*                                                                         *)
(* Calls are asynchronous: a call runs synchronously up to its next await, *)
(* so every action below is one such synchronous segment, and segments of  *)
(* different calls interleave freely.                                      *)
(***************************************************************************)
EXTENDS Integers, Sequences, FiniteSets, TLC

VARIABLES
    tokenState,   \* OAuth.tokenState: null, or [accessToken, expiresAt]
    now,          \* Date.now(), in milliseconds
    calls,        \* the calls, one record per call
    nFetch,       \* number of requests sent to the token endpoint so far
    issued,       \* number of tokens the token endpoint has issued so far
    started,      \* number of calls made so far
    cleared,      \* clearToken was called and no call was made since
    event         \* what the step just taken did

vars == <<tokenState, now, calls, nFetch, issued, started, cleared, event>>

-----------------------------------------------------------------------------
(* Bounds of the model. *)

\* number of calls made in one behaviour; they may overlap
MaxCalls == 2
\* number of clock ticks in one behaviour
MaxTicks == 2

\* call c is the c-th call that is made
Slots == 1..MaxCalls

\* milliseconds per second: the factor 1000 of the expiry arithmetic
MsPerSecond == 1000
\* one clock tick, in milliseconds
TickMs == MsPerSecond
\* the clock value at construction
StartTime == 100 * TickMs

-----------------------------------------------------------------------------
(* JavaScript values. *)

null == <<>>
\* an optional argument: undefined is <<>>, a given value v is <<v>>
undefined == <<>>
Given(v) == <<v>>

RECURSIVE Cat(_)
\* the string made of the pieces of a sequence of strings
Cat(s) == IF s = <<>> THEN "" ELSE Head(s) \o Cat(Tail(s))

Range(s) == {s[i] : i \in DOMAIN s}

DigitChars == <<"0", "1", "2", "3", "4", "5", "6", "7", "8", "9">>
IsDigit(ch) == \E d \in 1..10 : DigitChars[d] = ch
DigitVal(ch) == (CHOOSE d \in 1..10 : DigitChars[d] = ch) - 1

RECURSIVE ToDecimal(_)
\* String(n) for a natural number n, as a sequence of characters
ToDecimal(n) ==
    IF n < 10 THEN <<DigitChars[n + 1]>>
    ELSE Append(ToDecimal(n \div 10), DigitChars[(n % 10) + 1])

RECURSIVE LeadingDigits(_)
LeadingDigits(s) ==
    IF s = <<>> \/ ~IsDigit(Head(s)) THEN <<>>
    ELSE <<Head(s)>> \o LeadingDigits(Tail(s))

RECURSIVE DigitsValue(_)
DigitsValue(s) ==
    IF s = <<>> THEN 0
    ELSE 10 * DigitsValue(SubSeq(s, 1, Len(s) - 1)) + DigitVal(s[Len(s)])

\* parseInt(s, 10) of a string that starts with a digit: the value of its
\* longest prefix of digits (the token endpoint sends decimal strings)
parseInt(s) == DigitsValue(LeadingDigits(s))

-----------------------------------------------------------------------------
(* Strings that are encoded character by character are sequences of        *)
(* one-character strings; Cat gives the string itself.                     *)

Letters ==
    {"a", "b", "c", "d", "e", "f", "g", "h", "i", "j", "k", "l", "m",
     "n", "o", "p", "q", "r", "s", "t", "u", "v", "w", "x", "y", "z",
     "A", "B", "C", "D", "E", "F", "G", "H", "I", "J", "K", "L", "M",
     "N", "O", "P", "Q", "R", "S", "T", "U", "V", "W", "X", "Y", "Z"}
AlphaNum == Letters \cup Range(DigitChars)

\* the characters encodeURIComponent leaves as they are
UriUnreserved == AlphaNum \cup {"-", "_", ".", "!", "~", "*", "'", "(", ")"}
\* the characters the application/x-www-form-urlencoded serializer of
\* URLSearchParams leaves as they are
FormUnreserved == AlphaNum \cup {"*", "-", ".", "_"}

\* the percent-encoding of the ASCII characters of the model's inputs
PercentCode(ch) ==
    CASE ch = " " -> "%20"
      [] ch = "!" -> "%21"
      [] ch = "&" -> "%26"
      [] ch = "," -> "%2C"
      [] ch = "+" -> "%2B"
      [] ch = "/" -> "%2F"
      [] ch = "=" -> "%3D"
      [] ch = "?" -> "%3F"

encodeURIComponent(s) ==
    [i \in DOMAIN s |->
        IF s[i] \in UriUnreserved THEN s[i] ELSE PercentCode(s[i])]

\* the serialization of one name or value by URLSearchParams.toString()
FormEncode(s) ==
    [i \in DOMAIN s |->
        IF s[i] \in FormUnreserved THEN s[i]
        ELSE IF s[i] = " " THEN "+" ELSE PercentCode(s[i])]

RECURSIVE SearchParamsToString(_)
\* URLSearchParams.toString() of the list of <<name, value>> pairs
SearchParamsToString(list) ==
    IF list = <<>> THEN <<>>
    ELSE LET pair == FormEncode(Head(list)[1]) \o <<"=">> \o FormEncode(Head(list)[2])
         IN  IF Len(list) = 1 THEN pair
             ELSE pair \o <<"&">> \o SearchParamsToString(Tail(list))

\* a query value is a string, a number, a boolean or an array of strings
Str(chars) == [t |-> "string", s |-> chars]
Num(n) == [t |-> "number", n |-> n]
Bool(b) == [t |-> "boolean", b |-> b]
Arr(a) == [t |-> "array", a |-> a]

\* String(v)
String(v) ==
    CASE v.t = "string" -> v.s
      [] v.t = "number" -> ToDecimal(v.n)
      [] v.t = "boolean" -> IF v.b THEN <<"t", "r", "u", "e">>
                            ELSE <<"f", "a", "l", "s", "e">>

RECURSIVE JoinComma(_)
\* Array.prototype.join of an array of strings
JoinComma(a) ==
    IF a = <<>> THEN <<>>
    ELSE IF Len(a) = 1 THEN String(a[1])
    ELSE String(a[1]) \o <<",">> \o JoinComma(Tail(a))

RECURSIVE AppendAllJoined(_, _)
\* AppendAll that appends an array as the one string String(array)
AppendAllJoined(entries, searchParams) ==
    IF entries = <<>> THEN searchParams
    ELSE LET key == Head(entries)[1]
             value == Head(entries)[2]
             text == IF value.t = "array" THEN JoinComma(value.a) ELSE String(value)
         IN  AppendAllJoined(Tail(entries), Append(searchParams, <<key, text>>))

RECURSIVE AppendAll(_, _)
\* the pairs appended to searchParams by the loop over Object.entries:
\* one per element for an array value, one for any other value
AppendAll(entries, searchParams) ==
    IF entries = <<>> THEN searchParams
    ELSE LET key == Head(entries)[1]
             value == Head(entries)[2]
             appended ==
                 IF value.t = "array"
                 THEN searchParams \o [i \in DOMAIN value.a |-> <<key, String(value.a[i])>>]
                 ELSE Append(searchParams, <<key, String(value)>>)
         IN  AppendAll(Tail(entries), appended)

\* FhirResourceBuilder.buildUrl of a builder [baseUrl, resourceType].
\* pathParams is undefined or Given(string); queryParams is undefined or
\* Given(the object's entries, in the order of Object.entries).
buildUrl(builder, pathParams, queryParams) ==
    LET url == <<builder.baseUrl, "/", builder.resourceType>>
        withPath ==
            IF pathParams # undefined /\ pathParams[1] # <<>>
            THEN url \o <<"/">> \o encodeURIComponent(pathParams[1])
            ELSE url
    IN  IF queryParams # undefined /\ Len(queryParams[1]) > 0
        THEN withPath \o <<"?">> \o SearchParamsToString(AppendAll(queryParams[1], <<>>))
        ELSE withPath

-----------------------------------------------------------------------------
(* JSON values, as JSON.parse gives them: tagged records.  A property a    *)
(* value does not have reads as JUndefined.                                *)

JUndefined == [j |-> "undefined"]
JNull == [j |-> "null"]
JStr(s) == [j |-> "string", str |-> s]
JArr(a) == [j |-> "array", arr |-> a]
JObj(o) == [j |-> "object", obj |-> o]

IsNullish(v) == v.j \in {"undefined", "null"}

\* v.key, for a value v that is not nullish
Get(v, key) ==
    IF v.j = "object" /\ key \in DOMAIN v.obj THEN v.obj[key] ELSE JUndefined
\* v?.key
OptGet(v, key) == IF IsNullish(v) THEN JUndefined ELSE Get(v, key)
\* v?.[0]  (the first character of a string has no property of its own,
\* so what is read from it equals what is read from JUndefined)
OptFirst(v) ==
    IF IsNullish(v) THEN JUndefined
    ELSE IF v.j = "array" THEN (IF Len(v.arr) > 0 THEN v.arr[1] ELSE JUndefined)
    ELSE Get(v, "0")
\* a ?? b
Coalesce(a, b) == IF IsNullish(a) THEN b ELSE a

\* the response bodies of the model
TextNotFound ==
    "{\"resourceType\":\"OperationOutcome\",\"issue\":[{\"severity\":\"error\",\"diagnostics\":\"not found\"}]}"
TextDetails ==
    "{\"resourceType\":\"OperationOutcome\",\"issue\":[{\"severity\":\"error\",\"details\":{\"text\":\"invalid\"}}]}"
TextBoth ==
    "{\"resourceType\":\"OperationOutcome\",\"issue\":[{\"diagnostics\":\"bad id\",\"details\":{\"text\":\"invalid\"}}]}"
TextNullDiagnostics ==
    "{\"resourceType\":\"OperationOutcome\",\"issue\":[{\"diagnostics\":null,\"details\":{\"text\":\"invalid\"}}]}"
TextSecondIssue ==
    "{\"resourceType\":\"OperationOutcome\",\"issue\":[{\"severity\":\"error\"},{\"diagnostics\":\"not found\"}]}"
TextEmptyIssue == "{\"resourceType\":\"OperationOutcome\",\"issue\":[]}"
TextNoIssue == "{\"resourceType\":\"OperationOutcome\"}"
TextPatient == "{\"resourceType\":\"Patient\",\"id\":\"123\"}"
TextBundle == "{\"resourceType\":\"Bundle\",\"entry\":[]}"
TextLowerCase == "{\"resourceType\":\"operationoutcome\"}"
TextNull == "null"
TextString == "\"OperationOutcome\""
TextPlain == "internal error"
TextEmpty == ""

JsonTexts ==
    {TextNotFound, TextDetails, TextBoth, TextNullDiagnostics, TextSecondIssue,
     TextEmptyIssue, TextNoIssue, TextPatient, TextBundle, TextLowerCase,
     TextNull, TextString}

OutcomeOf(issue) == JObj([resourceType |-> JStr("OperationOutcome"), issue |-> issue])
DetailsInvalid == JObj([text |-> JStr("invalid")])

\* JSON.parse(text) of a text of JsonTexts
JsonValue(text) ==
    CASE text = TextNotFound ->
            OutcomeOf(JArr(<<JObj([severity |-> JStr("error"),
                                   diagnostics |-> JStr("not found")])>>))
      [] text = TextDetails ->
            OutcomeOf(JArr(<<JObj([severity |-> JStr("error"),
                                   details |-> DetailsInvalid])>>))
      [] text = TextBoth ->
            OutcomeOf(JArr(<<JObj([diagnostics |-> JStr("bad id"),
                                   details |-> DetailsInvalid])>>))
      [] text = TextNullDiagnostics ->
            OutcomeOf(JArr(<<JObj([diagnostics |-> JNull,
                                   details |-> DetailsInvalid])>>))
      [] text = TextSecondIssue ->
            OutcomeOf(JArr(<<JObj([severity |-> JStr("error")]),
                             JObj([diagnostics |-> JStr("not found")])>>))
      [] text = TextEmptyIssue -> OutcomeOf(JArr(<<>>))
      [] text = TextNoIssue -> JObj([resourceType |-> JStr("OperationOutcome")])
      [] text = TextPatient ->
            JObj([resourceType |-> JStr("Patient"), id |-> JStr("123")])
      [] text = TextBundle ->
            JObj([resourceType |-> JStr("Bundle"), entry |-> JArr(<<>>)])
      [] text = TextLowerCase -> JObj([resourceType |-> JStr("operationoutcome")])
      [] text = TextNull -> JNull
      [] text = TextString -> JStr("OperationOutcome")

\* JSON.parse(text): the parsed value, or a SyntaxError for a text that is
\* no JSON (TextPlain, TextEmpty)
JSONparse(text) ==
    IF text \in JsonTexts THEN [ok |-> TRUE, value |-> JsonValue(text)]
    ELSE [ok |-> FALSE]

-----------------------------------------------------------------------------
(* Errors.  The message of an error built from a template literal is the   *)
(* sequence of the literal's pieces; Cat(message) is the string.           *)

Error(message) == [name |-> "Error", message |-> message]
TypeError(message) == [name |-> "TypeError", message |-> message]
SyntaxError(message) == [name |-> "SyntaxError", message |-> message]

\* the constructor with details.text looked at before diagnostics
FhirOperationOutcomeErrorDetailsFirst(operationOutcome, status) ==
    LET first == OptFirst(Get(operationOutcome, "issue"))
        message ==
            Coalesce(Coalesce(OptGet(OptGet(first, "details"), "text"),
                              OptGet(first, "diagnostics")),
                     JStr("FHIR OperationOutcome error"))
    IN  [name |-> "FhirOperationOutcomeError",
         message |-> <<message.str>>,
         operationOutcome |-> operationOutcome,
         status |-> status]

\* the constructor of FhirOperationOutcomeError
FhirOperationOutcomeError(operationOutcome, status) ==
    LET first == OptFirst(Get(operationOutcome, "issue"))
        message ==
            Coalesce(Coalesce(OptGet(first, "diagnostics"),
                              OptGet(OptGet(first, "details"), "text")),
                     JStr("FHIR OperationOutcome error"))
    IN  [name |-> "FhirOperationOutcomeError",
         message |-> <<message.str>>,
         operationOutcome |-> operationOutcome,
         status |-> status]

\* response.ok
Ok(status) == status \in 200..299

\* handleErrorResponse that never looks for an OperationOutcome
handleErrorResponseGeneric(builder, response, method) ==
    Error(<<"FHIR ", method, " ", builder.resourceType, " gagal: ",
            ToString(response.status), " ", response.text>>)

\* FhirResourceBuilder.handleErrorResponse: the error it throws
handleErrorResponse(builder, response, method) ==
    LET text == response.text
        parsed == JSONparse(text)
    IN  IF parsed.ok /\ OptGet(parsed.value, "resourceType") = JStr("OperationOutcome")
        THEN FhirOperationOutcomeError(parsed.value, response.status)
        ELSE Error(<<"FHIR ", method, " ", builder.resourceType, " gagal: ",
                     ToString(response.status), " ", text>>)

-----------------------------------------------------------------------------
(* The token cache: class OAuth.                                           *)

\* seconds before expiry at which a token is refreshed
TOKEN_EXPIRY_BUFFER == 60

\* isTokenValid with the comparison turned around
isTokenValidReversed(ts, t) ==
    IF ts = null THEN FALSE
    ELSE t > ts.expiresAt - TOKEN_EXPIRY_BUFFER * MsPerSecond

\* isTokenValid with a comparison that is not strict
isTokenValidInclusive(ts, t) ==
    IF ts = null THEN FALSE
    ELSE t <= ts.expiresAt - TOKEN_EXPIRY_BUFFER * MsPerSecond

\* OAuth.isTokenValid, for the cached state ts at clock value t
isTokenValid(ts, t) ==
    IF ts = null THEN FALSE
    ELSE t < ts.expiresAt - TOKEN_EXPIRY_BUFFER * MsPerSecond

\* the TokenState OAuth.fetchToken stores for the decoded response data
NewTokenState(data) ==
    LET expiresInMs == parseInt(data.expires_in) * MsPerSecond
        issuedAt == parseInt(data.issued_at)
    IN  [accessToken |-> data.access_token, expiresAt |-> issuedAt + expiresInMs]

\* FetchTokenError without the body of the response
FetchTokenErrorNoBody(response) ==
    Error(<<"Failed to fetch access token: ", ToString(response.status)>>)

\* the error OAuth.fetchToken throws for a response that is not ok
FetchTokenError(response) ==
    Error(<<"Failed to fetch access token: ", ToString(response.status), " ",
            response.text>>)

\* the error of reading accessToken of a null tokenState
NullTokenError ==
    TypeError(<<"Cannot read properties of null (reading 'accessToken')">>)

-----------------------------------------------------------------------------
(* The environment: what the two endpoints may answer.                     *)

\* the token endpoint issues a new token with every answer
AccessToken(n) == "tok" \o ToString(n)
\* the answers of the token endpoint at clock value t, after n tokens
TokenResponses(t, n, lifetimes) ==
    {[status |-> 200,
      data |-> [access_token |-> AccessToken(n + 1), expires_in |-> e,
                issued_at |-> ToDecimal(t)]] : e \in lifetimes}
    \cup {[status |-> 401, text |-> "invalid_client"],
          [status |-> 500, text |-> TextPlain]}

\* the answers of the resource endpoint
Statuses == {200, 404, 500}
ResourceResponses ==
    {[status |-> st, text |-> tx] : st \in Statuses, tx \in JsonTexts \cup {TextPlain, TextEmpty}}

-----------------------------------------------------------------------------
(* The calls.  The client of the model is built for the development        *)
(* environment; fhir("Patient") gives the builder of every resource call.  *)

FhirBaseUrl == "https://api-satusehat-stg.dto.kemkes.go.id/fhir-r4/v1"
PatientBuilder == [baseUrl |-> FhirBaseUrl, resourceType |-> "Patient"]

Ops == {"getAccessToken", "get", "post", "put", "patch"}

\* the HTTP method and the Content-Type of a resource operation
Method(op) ==
    CASE op = "get" -> "GET" [] op = "post" -> "POST"
      [] op = "put" -> "PUT" [] op = "patch" -> "PATCH"
ContentType(op) ==
    IF op = "patch" THEN "application/json-patch+json" ELSE "application/json"

Id123 == <<"1", "2", "3">>
NameQuery == << <<(<<"n", "a", "m", "e">>), Str(<<"R", "S">>)>> >>
PatientBody == "{\"resourceType\":\"Patient\",\"id\":\"123\"}"
PatchBody == "[{\"op\":\"replace\",\"path\":\"/active\",\"value\":true}]"

Args(pathParams, queryParams, body) ==
    [pathParams |-> pathParams, queryParams |-> queryParams, body |-> body]

\* the arguments a call of op may be made with; body is the JSON.stringify
\* of the resource or of the patch operations
ArgsOf(op) ==
    CASE op = "getAccessToken" -> {Args(undefined, undefined, undefined)}
      [] op = "get" ->
            {Args(p, q, undefined) :
                p \in {undefined, Given(Id123)}, q \in {undefined, Given(NameQuery)}}
      [] op = "post" -> {Args(undefined, undefined, Given(PatientBody))}
      [] op = "put" ->
            {Args(p, undefined, Given(PatientBody)) : p \in {Given(Id123), Given(<<>>)}}
      [] op = "patch" ->
            {Args(p, undefined, Given(PatchBody)) : p \in {Given(Id123), Given(<<>>)}}

\* A call: where it stands (pc), what it was asked (op, args), the token
\* getAccessToken gave it, the requests it sent to the token endpoint
\* (tokenRequests) and to the resource endpoint (requests), and the
\* response it is working on.
Idle ==
    [pc |-> "idle", op |-> "none", args |-> Args(undefined, undefined, undefined),
     token |-> undefined, tokenRequests |-> 0, requests |-> <<>>,
     response |-> undefined]
\* a call that ended keeps no state
Done == [Idle EXCEPT !.pc = "done"]

Return(value) == [kind |-> "return", value |-> value]
Throw(error) == [kind |-> "throw", error |-> error]

\* The events: a call c was made and checked the cache in state ts at clock
\* value t, after n token requests; its token response was stored; it
\* resumed after its fetch; it sent its resource request; it ended, in state
\* call, with result; the token was cleared, after n token requests.
NoEvent == [type |-> "none"]
Invoked(c, ts, t, cl, n) ==
    [type |-> "invoke", id |-> c, tokenState |-> ts, now |-> t, cleared |-> cl,
     nFetch |-> n]
Stored(c, response) == [type |-> "store", id |-> c, response |-> response]
Resumed(c, response) == [type |-> "resume", id |-> c, response |-> response]
Sent(c) == [type |-> "send", id |-> c]
Ended(c, call, result) == [type |-> "end", id |-> c, call |-> call, result |-> result]
Cleared(n) == [type |-> "clear", nFetch |-> n]

Init ==
    /\ tokenState = null
    /\ now = StartTime
    /\ calls = [c \in Slots |-> Idle]
    /\ nFetch = 0
    /\ issued = 0
    /\ started = 0
    /\ cleared = FALSE
    /\ event = NoEvent

\* call c, in state call, ends with result
End(c, call, result) ==
    /\ calls' = [calls EXCEPT ![c] = Done]
    /\ event' = Ended(c, call, result)

\* A call of op starts: OAuth.getAccessToken runs up to its first await.  A
\* valid cached token is returned at once; otherwise fetchToken sends its
\* request to the token endpoint.
Invoke(c, op, args) ==
    /\ calls[c].pc = "idle"
    /\ c = started + 1
    /\ started' = started + 1
    /\ IF isTokenValid(tokenState, now)
       THEN /\ calls' = [calls EXCEPT ![c] =
                    [Idle EXCEPT !.pc = "gotToken", !.op = op, !.args = args,
                                 !.token = Given(tokenState.accessToken)]]
            /\ nFetch' = nFetch
       ELSE /\ calls' = [calls EXCEPT ![c] =
                    [Idle EXCEPT !.pc = "fetchToken", !.op = op, !.args = args,
                                 !.tokenRequests = 1]]
            /\ nFetch' = nFetch + 1
    /\ cleared' = FALSE
    /\ event' = Invoked(c, tokenState, now, cleared, nFetch)
    /\ UNCHANGED <<tokenState, now, issued>>

\* TokenResponse that renews the access token of a cached token and keeps
\* its expiry
TokenResponseMixed(c, response) ==
    /\ calls[c].pc = "fetchToken"
    /\ IF ~Ok(response.status)
       THEN /\ End(c, [calls[c] EXCEPT !.response = Given(response)],
                   Throw(FetchTokenError(response)))
            /\ UNCHANGED <<tokenState, issued>>
       ELSE /\ calls' = [calls EXCEPT ![c].pc = "fetched",
                                      ![c].response = Given(response)]
            /\ tokenState' =
                  IF tokenState = null THEN NewTokenState(response.data)
                  ELSE [tokenState EXCEPT !.accessToken = response.data.access_token]
            /\ issued' = issued + 1
            /\ event' = Stored(c, response)
    /\ UNCHANGED <<now, nFetch, started, cleared>>

\* TokenResponse that drops the cached token when the request fails
TokenResponseClearOnFailure(c, response) ==
    /\ calls[c].pc = "fetchToken"
    /\ IF ~Ok(response.status)
       THEN /\ End(c, [calls[c] EXCEPT !.response = Given(response)],
                   Throw(FetchTokenError(response)))
            /\ tokenState' = null
            /\ UNCHANGED issued
       ELSE /\ calls' = [calls EXCEPT ![c].pc = "fetched",
                                      ![c].response = Given(response)]
            /\ tokenState' = NewTokenState(response.data)
            /\ issued' = issued + 1
            /\ event' = Stored(c, response)
    /\ UNCHANGED <<now, nFetch, started, cleared>>

\* TokenResponse that keeps the token that is cached, if there is one
TokenResponseFirstWins(c, response) ==
    /\ calls[c].pc = "fetchToken"
    /\ IF ~Ok(response.status)
       THEN /\ End(c, [calls[c] EXCEPT !.response = Given(response)],
                   Throw(FetchTokenError(response)))
            /\ UNCHANGED <<tokenState, issued>>
       ELSE /\ calls' = [calls EXCEPT ![c].pc = "fetched",
                                      ![c].response = Given(response)]
            /\ tokenState' = IF tokenState = null THEN NewTokenState(response.data)
                             ELSE tokenState
            /\ issued' = issued + 1
            /\ event' = Stored(c, response)
    /\ UNCHANGED <<now, nFetch, started, cleared>>

\* The token endpoint answers: the rest of OAuth.fetchToken.
TokenResponse(c, response) ==
    /\ calls[c].pc = "fetchToken"
    /\ IF ~Ok(response.status)
       THEN /\ End(c, [calls[c] EXCEPT !.response = Given(response)],
                   Throw(FetchTokenError(response)))
            /\ UNCHANGED <<tokenState, issued>>
       ELSE /\ calls' = [calls EXCEPT ![c].pc = "fetched",
                                      ![c].response = Given(response)]
            /\ tokenState' = NewTokenState(response.data)
            /\ issued' = issued + 1
            /\ event' = Stored(c, response)
    /\ UNCHANGED <<now, nFetch, started, cleared>>

\* AfterFetch that waits until no other call has a request in flight
AfterFetchSerialized(c) ==
    /\ calls[c].pc = "fetched"
    /\ \A d \in Slots \ {c} : calls[d].pc \notin {"fetchToken", "fetchResource"}
    /\ IF tokenState = null
       THEN End(c, calls[c], Throw(NullTokenError))
       ELSE /\ calls' = [calls EXCEPT ![c].pc = "gotToken",
                                      ![c].token = Given(tokenState.accessToken),
                                      ![c].response = undefined]
            /\ event' = Resumed(c, calls[c].response[1])
    /\ UNCHANGED <<tokenState, now, nFetch, issued, started, cleared>>

\* OAuth.getAccessToken resumes after fetchToken and reads tokenState.
AfterFetch(c) ==
    /\ calls[c].pc = "fetched"
    /\ IF tokenState = null
       THEN End(c, calls[c], Throw(NullTokenError))
       ELSE /\ calls' = [calls EXCEPT ![c].pc = "gotToken",
                                      ![c].token = Given(tokenState.accessToken),
                                      ![c].response = undefined]
            /\ event' = Resumed(c, calls[c].response[1])
    /\ UNCHANGED <<tokenState, now, nFetch, issued, started, cleared>>

\* SatusehatClient.getAccessToken gives the token to its caller.
ReturnToken(c) ==
    /\ calls[c].pc = "gotToken"
    /\ calls[c].op = "getAccessToken"
    /\ End(c, calls[c], Return(calls[c].token[1]))
    /\ UNCHANGED <<tokenState, now, nFetch, issued, started, cleared>>

\* RequestOf with the token in the URL as well
RequestOfTokenInUrl(op, args, token) ==
    [method |-> Method(op),
     url |-> buildUrl(PatientBuilder, args.pathParams, args.queryParams)
                \o <<"?access_token=", token>>,
     Authorization |-> <<"Bearer ", token>>,
     ContentType |-> ContentType(op),
     body |-> args.body]

\* RequestOf with the token alone as the Authorization header
RequestOfBareToken(op, args, token) ==
    [method |-> Method(op),
     url |-> buildUrl(PatientBuilder, args.pathParams, args.queryParams),
     Authorization |-> <<token>>,
     ContentType |-> ContentType(op),
     body |-> args.body]

\* the request get, post, put or patch sends with the token it was given
RequestOf(op, args, token) ==
    [method |-> Method(op),
     url |-> buildUrl(PatientBuilder, args.pathParams, args.queryParams),
     Authorization |-> <<"Bearer ", token>>,
     ContentType |-> ContentType(op),
     body |-> args.body]

\* SendRequest that does not wait for the token
SendRequestEarly(c) ==
    /\ calls[c].pc = "fetchToken"
    /\ calls[c].op \in {"get", "post", "put", "patch"}
    /\ calls[c].requests = <<>>
    /\ calls' = [calls EXCEPT
            ![c].requests = Append(@, RequestOf(calls[c].op, calls[c].args, "none"))]
    /\ event' = Sent(c)
    /\ UNCHANGED <<tokenState, now, nFetch, issued, started, cleared>>

\* get, post, put or patch resumes with the token, builds the URL and sends
\* the request.
SendRequest(c) ==
    /\ calls[c].pc = "gotToken"
    /\ calls[c].op \in {"get", "post", "put", "patch"}
    /\ calls' = [calls EXCEPT
            ![c].pc = "fetchResource",
            ![c].requests = Append(@, RequestOf(calls[c].op, calls[c].args,
                                                calls[c].token[1]))]
    /\ event' = Sent(c)
    /\ UNCHANGED <<tokenState, now, nFetch, issued, started, cleared>>

\* what get, post, put or patch does with the response
Outcome(op, response) ==
    IF ~Ok(response.status)
    THEN Throw(handleErrorResponse(PatientBuilder, response, Method(op)))
    ELSE IF JSONparse(response.text).ok
         THEN Return(JSONparse(response.text).value)
         ELSE Throw(SyntaxError(<<"Unexpected end of JSON input">>))

\* ResourceResponse that drops the cached token after a 401
ResourceResponseClearOn401(c, response) ==
    /\ calls[c].pc = "fetchResource"
    /\ End(c, [calls[c] EXCEPT !.response = Given(response)],
           Outcome(calls[c].op, response))
    /\ tokenState' = IF response.status = 401 THEN null ELSE tokenState
    /\ UNCHANGED <<now, nFetch, issued, started, cleared>>

\* ResourceResponse that sends the request once more after a 401
ResourceResponseRetry(c, response) ==
    /\ calls[c].pc = "fetchResource"
    /\ IF response.status = 401 /\ Len(calls[c].requests) < 2
       THEN /\ calls' = [calls EXCEPT
                    ![c].requests = Append(@, RequestOf(calls[c].op, calls[c].args,
                                                        calls[c].token[1]))]
            /\ event' = Sent(c)
       ELSE End(c, [calls[c] EXCEPT !.response = Given(response)],
                Outcome(calls[c].op, response))
    /\ UNCHANGED <<tokenState, now, nFetch, issued, started, cleared>>

\* The resource endpoint answers.
ResourceResponse(c, response) ==
    /\ calls[c].pc = "fetchResource"
    /\ End(c, [calls[c] EXCEPT !.response = Given(response)],
           Outcome(calls[c].op, response))
    /\ UNCHANGED <<tokenState, now, nFetch, issued, started, cleared>>

\* what fetch rejects with when no response arrives
Rejections == {TypeError(<<"fetch failed">>), TypeError(<<"Failed to fetch">>)}

\* Reject that wraps the rejection in the generic error of the builder
RejectWrapped(c, reason) ==
    /\ calls[c].pc = "fetchResource"
    /\ End(c, [calls[c] EXCEPT !.response = Given([rejection |-> reason])],
           Throw(Error(<<"FHIR ", Method(calls[c].op), " ",
                         PatientBuilder.resourceType, " gagal: ">> \o reason.message)))
    /\ UNCHANGED <<tokenState, now, nFetch, issued, started, cleared>>

\* The request to the resource endpoint fails without a response: fetch
\* rejects with reason, and nothing in get, post, put or patch catches it.
Reject(c, reason) ==
    /\ calls[c].pc = "fetchResource"
    /\ End(c, [calls[c] EXCEPT !.response = Given([rejection |-> reason])],
           Throw(reason))
    /\ UNCHANGED <<tokenState, now, nFetch, issued, started, cleared>>

\* The request to the token endpoint fails without a response: the fetch of
\* fetchToken rejects with reason, and nothing in fetchToken, getAccessToken
\* or the caller catches it; tokenState is not assigned.
RejectToken(c, reason) ==
    /\ calls[c].pc = "fetchToken"
    /\ End(c, [calls[c] EXCEPT !.response = Given([rejection |-> reason])],
           Throw(reason))
    /\ UNCHANGED <<tokenState, now, nFetch, issued, started, cleared>>

\* clearToken that asks for a new token at once
clearTokenAndRefresh ==
    /\ tokenState' = null
    /\ cleared' = TRUE
    /\ event' = Cleared(nFetch)
    /\ nFetch' = nFetch + 1
    /\ UNCHANGED <<now, calls, issued, started>>

\* OAuth.clearToken
clearToken ==
    /\ tokenState' = null
    /\ cleared' = TRUE
    /\ event' = Cleared(nFetch)
    /\ UNCHANGED <<now, calls, nFetch, issued, started>>

\* the clock advances
Tick ==
    /\ now < StartTime + MaxTicks * TickMs
    /\ now' = now + TickMs
    /\ event' = NoEvent
    /\ UNCHANGED <<tokenState, calls, nFetch, issued, started, cleared>>

-----------------------------------------------------------------------------
(* Spec: the token cache under overlapping calls.  Calls of                *)
(* client.getAccessToken() overlap with one another and with clearToken(), *)
(* the token endpoint issues tokens of every lifetime or fails, and the    *)
(* clock advances.  (Every call of a builder starts with the same          *)
(* getAccessToken; SpecFhir has those.)                                    *)

NoArgs == Args(undefined, undefined, undefined)
\* the lifetimes of the tokens, in seconds: expired when issued, valid for
\* one second more than the buffer, valid for an hour
Lifetimes == {<<"0">>, <<"6", "1">>, <<"3", "5", "9", "9">>}

Next ==
    \/ \E c \in Slots : Invoke(c, "getAccessToken", NoArgs)
    \/ \E c \in Slots : \E response \in TokenResponses(now, issued, Lifetimes) :
            TokenResponse(c, response)
    \/ \E c \in Slots : AfterFetch(c)
    \/ \E c \in Slots : ReturnToken(c)
    \/ clearToken
    \/ Tick

Spec == Init /\ [][Next]_vars

-----------------------------------------------------------------------------
(* SpecFhir: the resource builder.  Calls of get, post, put and patch with *)
(* every argument of ArgsOf follow one another, and the resource endpoint  *)
(* gives every answer of ResourceResponses.                                *)

FhirOps == {"get", "post", "put", "patch"}
\* all tokens live for an hour
LongLifetime == {<<"3", "5", "9", "9">>}

\* call c is made after the calls before it have ended
Sequential(c) == \A d \in Slots : d < c => calls[d].pc = "done"

NextFhir ==
    \/ \E c \in Slots, op \in FhirOps : \E args \in ArgsOf(op) :
            Sequential(c) /\ Invoke(c, op, args)
    \/ \E c \in Slots : \E response \in TokenResponses(now, issued, LongLifetime) :
            TokenResponse(c, response)
    \/ \E c \in Slots : AfterFetch(c)
    \/ \E c \in Slots : SendRequest(c)
    \/ \E c \in Slots, response \in ResourceResponses : ResourceResponse(c, response)
    \/ clearToken

SpecFhir == Init /\ [][NextFhir]_vars

-----------------------------------------------------------------------------
(* SpecClient: one client used for everything.  Calls of getAccessToken,   *)
(* get, post, put and patch follow one another; tokens of every lifetime   *)
(* are issued, the clock advances, clearToken is called, and a resource    *)
(* request is answered (401 included) or fails without a response.         *)

ClientResponses ==
    {[status |-> st, text |-> tx] :
        st \in {200, 401, 404}, tx \in {TextPatient, TextNotFound, TextPlain}}

NextClient ==
    \/ \E c \in Slots, op \in Ops : \E args \in ArgsOf(op) :
            Sequential(c) /\ Invoke(c, op, args)
    \/ \E c \in Slots : \E response \in TokenResponses(now, issued, Lifetimes) :
            TokenResponse(c, response)
    \/ \E c \in Slots : AfterFetch(c)
    \/ \E c \in Slots : ReturnToken(c)
    \/ \E c \in Slots : SendRequest(c)
    \/ \E c \in Slots, response \in ClientResponses : ResourceResponse(c, response)
    \/ \E c \in Slots, reason \in Rejections : Reject(c, reason)
    \/ clearToken
    \/ Tick

SpecClient == Init /\ [][NextClient]_vars

-----------------------------------------------------------------------------
(* SpecPut: put called more than once.  The calls may overlap; between     *)
(* them the token is reused, refreshed (a token that is expired when it is *)
(* issued is not reused) or cleared.                                       *)

PutLifetimes == {<<"0">>, <<"3", "5", "9", "9">>}
PutResponses ==
    {[status |-> 200, text |-> TextPatient], [status |-> 404, text |-> TextNotFound]}

NextPut ==
    \/ \E c \in Slots : \E args \in ArgsOf("put") : Invoke(c, "put", args)
    \/ \E c \in Slots : \E response \in TokenResponses(now, issued, PutLifetimes) :
            TokenResponse(c, response)
    \/ \E c \in Slots : AfterFetch(c)
    \/ \E c \in Slots : SendRequest(c)
    \/ \E c \in Slots, response \in PutResponses : ResourceResponse(c, response)
    \/ clearToken

SpecPut == Init /\ [][NextPut]_vars

-----------------------------------------------------------------------------
(* SpecLive: calls that run to their end.  Calls of getAccessToken and of  *)
(* get overlap; each request to the token endpoint or to the resource      *)
(* endpoint is answered, fails without a response, or stays unanswered.    *)
(* The steps a call takes by itself (resuming after an await) are taken    *)
(* whenever they can be: the event loop runs every continuation that is    *)
(* ready.  Nothing is assumed about the network.                           *)

LiveOps == {"getAccessToken", "get"}
LiveArgs(op) ==
    IF op = "get" THEN Args(Given(Id123), undefined, undefined) ELSE NoArgs

\* the request call c waits for is settled: the token endpoint or the
\* resource endpoint answers, or the fetch rejects
Answer(c) ==
    \/ \E response \in TokenResponses(now, issued, LongLifetime) :
            TokenResponse(c, response)
    \/ \E reason \in Rejections : RejectToken(c, reason)
    \/ \E response \in PutResponses : ResourceResponse(c, response)
    \/ \E reason \in Rejections : Reject(c, reason)

NextLive ==
    \/ \E c \in Slots, op \in LiveOps : Invoke(c, op, LiveArgs(op))
    \/ \E c \in Slots : Answer(c)
    \/ \E c \in Slots : AfterFetch(c)
    \/ \E c \in Slots : ReturnToken(c)
    \/ \E c \in Slots : SendRequest(c)
    \/ clearToken
    \/ Tick

SpecLive ==
    /\ Init
    /\ [][NextLive]_vars
    /\ \A c \in Slots :
        /\ WF_vars(AfterFetch(c))
        /\ WF_vars(ReturnToken(c))
        /\ WF_vars(SendRequest(c))

-----------------------------------------------------------------------------
(* SpecUrl: buildUrl as a function of the builder and its arguments.  The  *)
(* initial states draw the arguments; the one action builds the URL.       *)

XBuilders ==
    {[baseUrl |-> b, resourceType |-> k] :
        b \in {"https://x/fhir", FhirBaseUrl}, k \in {"Patient", "Organization"}}
IdInputs ==
    {undefined, Given(<<>>), Given(Id123), Given(<<"a", " ", "b">>),
     Given(<<"a", "/", "b">>), Given(<<"a", "?", "b", "=", "c", "&", "d">>)}
KName == <<"n", "a", "m", "e">>
KTag == <<"t", "a", "g">>
John == Str(<<"J", "o", "h", "n">>)
QueryInputs ==
    {undefined,
     Given(<<>>),
     Given(NameQuery),
     Given(<< <<KName, John>>, <<KTag, Arr(<<Str(<<"a">>), Str(<<"b">>)>>)>> >>),
     Given(<< <<KTag, Arr(<<Str(<<"b">>), Str(<<"a">>)>>)>>, <<KName, John>> >>),
     Given(<< <<KTag, Arr(<<>>)>> >>),
     Given(<< <<KTag, Arr(<<Str(<<"a">>)>>)>>, <<KName, John>>, <<KTag, Arr(<<>>)>> >>),
     Given(<< <<(<<"_", "c", "o", "u", "n", "t">>), Num(10)>>,
              <<(<<"a", "c", "t", "i", "v", "e">>), Bool(TRUE)>> >>),
     Given(<< <<KName, Str(<<"a", " ", "b">>)>> >>),
     Given(<< <<(<<"q">>), Str(<<"a", "&", "b", "=", "c">>)>> >>),
     Given(<< <<(<<"a", " ", "b">>), Str(<<"x", "+", "y", "!">>)>> >>),
     Given(<< <<KTag, Arr(<<Str(<<"a", ",", "b">>), Str(<<"?">>)>>)>> >>)}

UrlInputs ==
    {[type |-> "buildUrl", builder |-> b, pathParams |-> p, queryParams |-> q,
      url |-> undefined] : b \in XBuilders, p \in IdInputs, q \in QueryInputs}

InitUrl ==
    /\ tokenState = null
    /\ now = StartTime
    /\ calls = [c \in Slots |-> Idle]
    /\ nFetch = 0
    /\ issued = 0
    /\ started = 0
    /\ cleared = FALSE
    /\ event \in UrlInputs

BuildUrl ==
    /\ event.type = "buildUrl"
    /\ event.url = undefined
    /\ event' = [event EXCEPT !.url =
                    Given(buildUrl(event.builder, event.pathParams, event.queryParams))]
    /\ UNCHANGED <<tokenState, now, calls, nFetch, issued, started, cleared>>

NextUrl == BuildUrl

SpecUrl == InitUrl /\ [][NextUrl]_vars

-----------------------------------------------------------------------------
(* SpecOutcome: the constructor of FhirOperationOutcomeError as a function *)
(* of the payload and the status.                                          *)

DiagnosticsInputs == {JUndefined, JNull, JStr("bad id"), JStr("")}
DetailsInputs ==
    {JUndefined, JObj([coding |-> JArr(<<>>)]), JObj([text |-> JStr("invalid")])}
\* an issue; a property that is JUndefined is left out
Issue(diagnostics, details) ==
    JObj([severity |-> JStr("error")]
         @@ (IF diagnostics = JUndefined THEN [severity |-> JStr("error")]
             ELSE "diagnostics" :> diagnostics)
         @@ (IF details = JUndefined THEN [severity |-> JStr("error")]
             ELSE "details" :> details))
FirstIssues == {Issue(d, t) : d \in DiagnosticsInputs, t \in DetailsInputs}
OtherIssues == {Issue(JStr("not found"), JObj([text |-> JStr("other")]))}
IssueLists ==
    {<<>>} \cup {<<i>> : i \in FirstIssues}
           \cup {<<i, o>> : i \in FirstIssues, o \in OtherIssues}
OutcomeInputs ==
    {JObj([resourceType |-> JStr("OperationOutcome")])}
        \cup {OutcomeOf(JArr(l)) : l \in IssueLists}
        \cup {JsonValue(TextNotFound)}
ErrorStatuses == {400, 404, 422, 500}

ConstructInputs ==
    {[type |-> "construct", operationOutcome |-> o, status |-> st,
      error |-> undefined] : o \in OutcomeInputs, st \in ErrorStatuses}

InitOutcome ==
    /\ tokenState = null
    /\ now = StartTime
    /\ calls = [c \in Slots |-> Idle]
    /\ nFetch = 0
    /\ issued = 0
    /\ started = 0
    /\ cleared = FALSE
    /\ event \in ConstructInputs

Construct ==
    /\ event.type = "construct"
    /\ event.error = undefined
    /\ event' = [event EXCEPT !.error =
                    Given(FhirOperationOutcomeError(event.operationOutcome,
                                                    event.status))]
    /\ UNCHANGED <<tokenState, now, calls, nFetch, issued, started, cleared>>

NextOutcome == Construct

SpecOutcome == InitOutcome /\ [][NextOutcome]_vars

-----------------------------------------------------------------------------
(* SpecService: OrganizationService.  byId and byName, and the get of the  *)
(* Organization builder they are compared with, as functions of the        *)
(* argument, the token getAccessToken gave and the answer of the resource  *)
(* endpoint: each gives the request it sends and the result of the call.   *)

OrganizationBuilder == [baseUrl |-> FhirBaseUrl, resourceType |-> "Organization"]

\* the result of a call that decodes the body of a response that is ok
Decode(response) ==
    IF JSONparse(response.text).ok
    THEN Return(JSONparse(response.text).value)
    ELSE Throw(SyntaxError(<<"Unexpected end of JSON input">>))

\* FhirResourceBuilder.get of builder
BuilderGet(builder, args, token, response) ==
    [request |->
        [method |-> "GET",
         url |-> buildUrl(builder, args.pathParams, args.queryParams),
         Authorization |-> <<"Bearer ", token>>,
         ContentType |-> "application/json"],
     result |->
        IF ~Ok(response.status)
        THEN Throw(handleErrorResponse(builder, response, "GET"))
        ELSE Decode(response)]

\* OrganizationService.byId
byId(id, token, response) ==
    BuilderGet(OrganizationBuilder, Args(Given(id), undefined, undefined),
               token, response)

\* OrganizationService.byName
byName(name, token, response) ==
    [request |->
        [method |-> "GET",
         url |-> <<FhirBaseUrl, "/", "Organization", "?name=">>
                    \o encodeURIComponent(name),
         Authorization |-> <<"Bearer ", token>>],
     result |->
        IF ~Ok(response.status)
        THEN Throw(Error(<<"Failed to search ", "Organization", ": ",
                           ToString(response.status), " ", response.text>>))
        ELSE Decode(response)]

ServiceMethods == {"byId", "byName"}
\* the names and ids the service is called with
ServiceArgs ==
    {<<"R", "S">>, Id123, <<"R", "S", " ", "A">>, <<"a", "&", "b">>, <<"x", "!">>}

ServiceInputs ==
    {[type |-> "service", method |-> m, arg |-> a, token |-> AccessToken(1),
      response |-> r, service |-> undefined, builder |-> undefined] :
        m \in ServiceMethods, a \in ServiceArgs, r \in ResourceResponses}

InitService ==
    /\ tokenState = null
    /\ now = StartTime
    /\ calls = [c \in Slots |-> Idle]
    /\ nFetch = 0
    /\ issued = 0
    /\ started = 0
    /\ cleared = FALSE
    /\ event \in ServiceInputs

\* the service method is called, and so is the get of the builder with the
\* id, or with the query {name}
CallService ==
    /\ event.type = "service"
    /\ event.service = undefined
    /\ event' =
          [event EXCEPT
              !.service =
                  Given(IF event.method = "byId"
                        THEN byId(event.arg, event.token, event.response)
                        ELSE byName(event.arg, event.token, event.response)),
              !.builder =
                  Given(BuilderGet(OrganizationBuilder,
                            IF event.method = "byId"
                            THEN Args(Given(event.arg), undefined, undefined)
                            ELSE Args(undefined,
                                      Given(<< <<KName, Str(event.arg)>> >>),
                                      undefined),
                            event.token, event.response))]
    /\ UNCHANGED <<tokenState, now, calls, nFetch, issued, started, cleared>>

NextService == CallService

SpecService == InitService /\ [][NextService]_vars

-----------------------------------------------------------------------------
(* The token cache: properties checked under Spec.                         *)

\* the call of the invoke event took the token from the cache
TookCached ==
    /\ calls[event.id].pc = "gotToken"
    /\ calls[event.id].tokenRequests = 0
    /\ nFetch = event.nFetch
\* the call of the invoke event sent a request to the token endpoint
SentTokenRequest ==
    /\ calls[event.id].pc = "fetchToken"
    /\ calls[event.id].tokenRequests = 1
    /\ nFetch = event.nFetch + 1

\* C1: a call that finds a token cached with now < expiresAt - 60000 ms is
\* given that token's accessToken and sends nothing to the token endpoint;
\* and no step taken while the cached token is that fresh adds a request to
\* the token endpoint, so calls made while it stays valid leave the count
\* of token requests where the fetch of that token put it.
TokenReuse ==
    /\ [](event.type = "invoke" /\ event.tokenState # null
            /\ event.now < event.tokenState.expiresAt - 60000
          => TookCached
             /\ calls[event.id].token = Given(event.tokenState.accessToken))
    /\ [][tokenState # null /\ now < tokenState.expiresAt - 60000
            => nFetch' = nFetch]_vars

\* a second call was given the token the first call fetched: one request
TokenReuseWitness ==
    /\ event.type = "invoke" /\ event.id = 2
    /\ event.tokenState # null
    /\ event.now < event.tokenState.expiresAt - 60000
    /\ calls[2].token = Given("tok1")
    /\ nFetch = 1

\* C2: clearToken leaves the token absent and sends nothing, and the call
\* made next after clearToken sends a request to the token endpoint.
ClearForcesRefresh ==
    /\ event.type = "clear" => tokenState = null /\ nFetch = event.nFetch
    /\ event.type = "invoke" /\ event.cleared => SentTokenRequest

\* C3: a call sends a request to the token endpoint exactly when no token
\* is cached or now >= expiresAt - 60000 ms: it does with 59000 ms and with
\* exactly 60000 ms left, it does not with 61000 ms left.
RefreshAtBufferBoundary ==
    event.type = "invoke" =>
        /\ SentTokenRequest <=>
              (event.tokenState = null
               \/ event.now >= event.tokenState.expiresAt - 60000)
        /\ ~SentTokenRequest => TookCached
        /\ event.tokenState # null =>
              /\ event.tokenState.expiresAt = event.now + 59000 => SentTokenRequest
              /\ event.tokenState.expiresAt = event.now + 60000 => SentTokenRequest
              /\ event.tokenState.expiresAt = event.now + 61000 => TookCached

\* a call made with exactly 60000 ms left fetched
RefreshAtBufferBoundaryWitness ==
    /\ event.type = "invoke"
    /\ event.tokenState # null
    /\ event.tokenState.expiresAt = event.now + 60000
    /\ SentTokenRequest

\* C4: a token that getAccessToken gives to its caller has not expired when
\* it is given: now < expiresAt of the token state it was read from.
ReturnedTokenNotExpired ==
    event.type \in {"invoke", "resume"} /\ calls[event.id].pc = "gotToken"
        => tokenState # null /\ now < tokenState.expiresAt

\* C10: a 2xx answer of the token endpoint with access_token, expires_in
\* and issued_at makes tokenState {accessToken = access_token, expiresAt =
\* issued_at + expires_in * 1000}, whatever was cached, and the call that
\* fetched is given that access_token: it does not fail after its fetch
\* succeeded and does not get another token.
SuccessfulTokenFetch ==
    /\ event.type = "store" =>
          tokenState =
              [accessToken |-> event.response.data.access_token,
               expiresAt |-> DigitsValue(event.response.data.issued_at)
                             + DigitsValue(event.response.data.expires_in) * 1000]
    /\ event.type = "resume" =>
          calls[event.id].token = Given(event.response.data.access_token)
    /\ event.type = "end" => event.call.pc # "fetched"

\* the calls whose token request is in flight
InFlight == {c \in Slots : calls[c].pc = "fetchToken"}

\* C15: a call that finds no token, or an expired one, sends its own token
\* request also when the request of another call is in flight, so k calls
\* that overlap make k token requests; every token response that arrives
\* replaces tokenState, so tokenState is that of the response that arrived
\* last, also when the token it replaces would have lived longer.
RefreshesNotSerialized ==
    /\ event.type = "invoke"
          /\ (event.tokenState = null
              \/ event.now >= event.tokenState.expiresAt - 60000)
          => /\ SentTokenRequest
             /\ event.id \in InFlight
    /\ \A c \in InFlight : calls[c].tokenRequests = 1
    /\ nFetch >= Cardinality(InFlight)
    /\ event.type = "store" =>
          /\ tokenState.accessToken = event.response.data.access_token
          /\ tokenState.expiresAt =
                DigitsValue(event.response.data.issued_at)
                    + 1000 * DigitsValue(event.response.data.expires_in)

\* two calls overlapped and made two token requests; the response of the
\* second call arrived first with a token for an hour, the response of the
\* first call arrived last with a token that is already expired, and that
\* one is cached
RefreshesNotSerializedWitness ==
    /\ nFetch = 2
    /\ calls[2].pc = "fetched"
    /\ calls[2].response[1].data.expires_in = <<"3", "5", "9", "9">>
    /\ event.type = "store" /\ event.id = 1
    /\ event.response.data.expires_in = <<"0">>
    /\ tokenState.accessToken = event.response.data.access_token
    /\ tokenState.expiresAt = now

\* C16: a call whose token request was answered with a token ends by
\* returning a token, and the token is the access_token of that answer,
\* whatever other calls store and whenever clearToken is called between
\* the answer and the return.
ReturnsOwnToken ==
    /\ event.type = "end" /\ event.call.pc = "fetched" => event.result.kind = "return"
    /\ event.type = "resume" =>
          calls[event.id].token = Given(event.response.data.access_token)

\* the token state made of the two fields of one token response
PairOf(response) ==
    [accessToken |-> response.data.access_token,
     expiresAt |-> DigitsValue(response.data.issued_at)
                   + 1000 * DigitsValue(response.data.expires_in)]

\* C22: in every reachable state tokenState is null or a pair accessToken,
\* expiresAt of a token that was issued; it is null initially, and every
\* step that changes it either sets it to null or sets both fields from
\* the one token response that step stores, under every interleaving of
\* token responses and clearToken.
TokenStateIntegrity ==
    /\ tokenState = null
    /\ [](tokenState # null =>
            /\ DOMAIN tokenState = {"accessToken", "expiresAt"}
            /\ \E n \in 1..issued : tokenState.accessToken = AccessToken(n))
    /\ [](event.type = "store" => tokenState = PairOf(event.response))
    /\ [][tokenState' # tokenState =>
            \/ tokenState' = null
            \/ /\ event'.type = "store"
               /\ event'.response.status \in 200..299
               /\ tokenState' = PairOf(event'.response)]_vars

\* the response of the second call replaced the cached token of the first
\* call, which had another expiry, while the first call had not resumed
TokenStateIntegrityWitness ==
    /\ calls[1].pc = "fetched"
    /\ calls[1].response[1].data.expires_in = <<"6", "1">>
    /\ event.type = "store" /\ event.id = 2
    /\ tokenState = [accessToken |-> "tok2", expiresAt |-> now + 3599000]

-----------------------------------------------------------------------------
(* The resource calls: properties checked under SpecFhir.                  *)

\* C5: a call whose token request is answered with a status outside 2xx
\* fails with an error that carries the status and the raw body of that
\* answer; it has sent one token request and no resource request, and no
\* call goes on after such an answer.
TokenEndpointFailure ==
    /\ event.type = "end" /\ event.call.pc = "fetchToken" =>
          LET response == event.call.response[1]
          IN  /\ ~(response.status \in 200..299)
              /\ event.result.kind = "throw"
              /\ event.result.error.message[1] = "Failed to fetch access token: "
              /\ ToString(response.status) \in Range(event.result.error.message)
              /\ response.text \in Range(event.result.error.message)
              /\ event.call.tokenRequests = 1
              /\ event.call.requests = <<>>
    /\ \A c \in Slots :
          /\ calls[c].pc = "fetched" => calls[c].response[1].status \in 200..299
          /\ calls[c].tokenRequests <= 1

\* a resource call failed on a 401 of the token endpoint
TokenEndpointFailureWitness ==
    /\ event.type = "end" /\ event.call.pc = "fetchToken"
    /\ event.call.op \in FhirOps
    /\ event.call.response[1].status = 401
    /\ event.result.kind = "throw"

\* the bodies that are JSON with resourceType "OperationOutcome"
OutcomeTexts ==
    {TextNotFound, TextDetails, TextBoth, TextNullDiagnostics, TextSecondIssue,
     TextEmptyIssue, TextNoIssue}

\* C6: a get, post, put or patch answered with a status outside 2xx fails;
\* the error is a FhirOperationOutcomeError, with the parsed payload and
\* the status, exactly when the body is JSON with resourceType
\* "OperationOutcome"; every other body gives the generic error, whose
\* message holds the method, the resource type, the status and the raw body.
ErrorClassification ==
    event.type = "end" /\ event.call.pc = "fetchResource"
        /\ ~(event.call.response[1].status \in 200..299) =>
    LET response == event.call.response[1]
        error == event.result.error
    IN  /\ event.result.kind = "throw"
        /\ error.name = "FhirOperationOutcomeError" <=> response.text \in OutcomeTexts
        /\ response.text \in OutcomeTexts =>
              /\ error.status = response.status
              /\ error.operationOutcome.j = "object"
              /\ error.operationOutcome.obj.resourceType = JStr("OperationOutcome")
              /\ error.operationOutcome = JsonValue(response.text)
        /\ response.text \notin OutcomeTexts =>
              /\ error.name = "Error"
              /\ Cat(error.message) =
                    "FHIR " \o Method(event.call.op) \o " Patient gagal: "
                        \o ToString(response.status) \o " " \o response.text

\* a patch answered 404 with an OperationOutcome failed with the
\* OperationOutcome error
ErrorClassificationWitness ==
    /\ event.type = "end" /\ event.call.pc = "fetchResource"
    /\ event.call.op = "patch"
    /\ event.call.response[1] = [status |-> 404, text |-> TextNotFound]
    /\ event.result.kind = "throw"
    /\ event.result.error.name = "FhirOperationOutcomeError"

\* C7: every request a call sends to the resource endpoint has the header
\* Authorization "Bearer " followed by the token getAccessToken gave to
\* that call.
BearerToken ==
    /\ \A c \in Slots : \A i \in DOMAIN calls[c].requests :
          /\ calls[c].token # undefined
          /\ Cat(calls[c].requests[i].Authorization) = "Bearer " \o calls[c].token[1]
    /\ event.type = "send" => Len(calls[event.id].requests) = 1
    /\ event.type = "end" =>
          \A i \in DOMAIN event.call.requests :
              Cat(event.call.requests[i].Authorization)
                  = "Bearer " \o event.call.token[1]

\* the second call sent its request with the second token issued
BearerTokenWitness ==
    /\ event.type = "send" /\ event.id = 2
    /\ calls[2].token = Given("tok2")
    /\ Cat(calls[2].requests[1].Authorization) = "Bearer tok2"

\* C11: get sends GET, post sends POST to baseUrl "/" resourceType, put
\* sends PUT and patch sends PATCH to baseUrl "/" resourceType "/" and the
\* encoded id, for every id string that is passed, the empty string too;
\* patch sends Content-Type application/json-patch+json and the others
\* application/json.
VerbAndTarget ==
    event.type = "send" =>
    LET call == calls[event.id]
        request == call.requests[1]
    IN  /\ call.op = "get" => request.method = "GET"
        /\ call.op = "post" =>
              /\ request.method = "POST"
              /\ Cat(request.url) = FhirBaseUrl \o "/Patient"
        /\ call.op = "put" => request.method = "PUT"
        /\ call.op = "patch" => request.method = "PATCH"
        /\ call.op \in {"put", "patch"} =>
              Cat(request.url) =
                  FhirBaseUrl \o "/Patient/"
                      \o Cat(encodeURIComponent(call.args.pathParams[1]))
        /\ request.ContentType =
              IF call.op = "patch" THEN "application/json-patch+json"
              ELSE "application/json"

-----------------------------------------------------------------------------
(* The client: properties checked under SpecClient.                        *)

\* the call of the end event sent its resource request and got no response
Rejected ==
    /\ event.type = "end" /\ event.call.pc = "fetchResource"
    /\ "rejection" \in DOMAIN event.call.response[1]

\* C13 as the specification has it: a resource request that fails without
\* a response makes the call fail with the generic error of the builder,
\* which has the HTTP method and the resource type.
TransportFailureGeneric ==
    Rejected =>
        /\ event.result.kind = "throw"
        /\ event.result.error.name = "Error"
        /\ Method(event.call.op) \in Range(event.result.error.message)
        /\ "Patient" \in Range(event.result.error.message)

\* C13, amended: a resource request that fails without a response makes
\* the call fail with the very error fetch rejected with; the builder does
\* not wrap it, so the error names neither the method nor the resource
\* type; the call sent its one request and sends no other.
TransportFailure ==
    Rejected =>
        /\ event.result = Throw(event.call.response[1].rejection)
        /\ event.result.error.name = "TypeError"
        /\ Method(event.call.op) \notin Range(event.result.error.message)
        /\ "Patient" \notin Range(event.result.error.message)
        /\ Len(event.call.requests) = 1
        /\ calls[event.id] = Done

\* a patch failed on the rejection of its request
TransportFailureWitness ==
    /\ Rejected
    /\ event.call.op = "patch"
    /\ event.result = Throw(TypeError(<<"fetch failed">>))

-----------------------------------------------------------------------------
(* Repeated calls: properties checked under SpecPut.                       *)

\* C14: two calls of put with the same id and the same body send PUT
\* requests with the same URL and the same payload, whatever token each of
\* them was given; the URL and the payload are those of the arguments.
IdempotentRequestBuilding ==
    \A c, d \in Slots :
        /\ calls[c].requests # <<>> /\ calls[d].requests # <<>>
        /\ calls[c].op = "put" /\ calls[d].op = "put"
        /\ calls[c].args = calls[d].args
        => /\ calls[c].requests[1].method = "PUT"
           /\ calls[c].requests[1].method = calls[d].requests[1].method
           /\ Cat(calls[c].requests[1].url) = Cat(calls[d].requests[1].url)
           /\ calls[c].requests[1].body = calls[d].requests[1].body
           /\ calls[c].requests[1].body = calls[c].args.body
           /\ calls[c].args.pathParams = Given(Id123) =>
                 Cat(calls[c].requests[1].url) = FhirBaseUrl \o "/Patient/123"

\* two requests of put for the id 123 were sent with different tokens:
\* the token was cleared or refreshed between the two calls
IdempotentRequestBuildingWitness ==
    /\ calls[1].requests # <<>> /\ calls[2].requests # <<>>
    /\ calls[1].args.pathParams = Given(Id123)
    /\ calls[1].args = calls[2].args
    /\ calls[1].token # calls[2].token
    /\ calls[1].requests[1].url = calls[2].requests[1].url

\* C17: within one call of get, post, put or patch the token is acquired
\* first, then the URL is built and the request is sent, and the response
\* is interpreted after the request: a call that has not been given its
\* token has sent no request, a request is sent only by a call that holds
\* its token, and a call that ends on a response has sent its request.
StepOrder ==
    /\ [](/\ \A c \in Slots :
                /\ calls[c].pc \in {"idle", "fetchToken", "fetched", "gotToken"}
                      => calls[c].requests = <<>>
                /\ calls[c].requests # <<>> =>
                      /\ calls[c].pc = "fetchResource"
                      /\ calls[c].token # undefined
                      /\ calls[c].response = undefined
          /\ event.type = "end" =>
                /\ event.call.pc \in {"fetchToken", "fetched"}
                      => event.call.requests = <<>>
                /\ event.call.pc = "fetchResource" =>
                      /\ Len(event.call.requests) = 1
                      /\ event.call.token # undefined)
    /\ [][\A c \in Slots :
            calls'[c].requests # calls[c].requests /\ calls'[c].pc # "done" =>
                /\ calls[c].pc = "gotToken"
                /\ calls[c].token # undefined
                /\ calls'[c].pc = "fetchResource"
                /\ calls'[c].requests[1].Authorization = <<"Bearer ", calls[c].token[1]>>
                /\ calls'[c].requests[1].url =
                      buildUrl(PatientBuilder, calls[c].args.pathParams,
                               calls[c].args.queryParams)]_vars

\* a call fetched its token, then sent its request, then got the response
StepOrderWitness ==
    /\ event.type = "end" /\ event.call.pc = "fetchResource"
    /\ event.call.tokenRequests = 1
    /\ Len(event.call.requests) = 1
    /\ "status" \in DOMAIN event.call.response[1]
    /\ event.result.kind = "return"

\* C18: a call sends at most one request to the token endpoint and at most
\* one to the resource endpoint; a token response or a resource response
\* outside 2xx ends the call with an error, and a call that has ended
\* sends nothing more.
NoRetry ==
    /\ [](/\ \A c \in Slots :
                /\ calls[c].tokenRequests <= 1
                /\ Len(calls[c].requests) <= 1
          /\ nFetch <= started
          /\ event.type = "end" =>
                /\ event.call.tokenRequests <= 1
                /\ Len(event.call.requests) <= 1
                /\ calls[event.id] = Done
                /\ /\ event.call.response # undefined
                   /\ "status" \in DOMAIN event.call.response[1]
                   /\ event.call.response[1].status \notin 200..299
                   => event.result.kind = "throw")
    /\ [][\A c \in Slots : calls[c].pc = "done" => calls'[c] = calls[c]]_vars

\* a call ended with an error on a 401 of the resource endpoint, having
\* sent one token request and one resource request
NoRetryWitness ==
    /\ event.type = "end" /\ event.call.pc = "fetchResource"
    /\ event.call.response[1] = [status |-> 401, text |-> TextPlain]
    /\ event.result.kind = "throw"
    /\ event.call.tokenRequests = 1
    /\ Len(event.call.requests) = 1

\* C19: no token request has been sent after construction, and every step
\* that sends one is the start of a call that finds no token cached or
\* finds it expired (now >= expiresAt - 60000 ms) at that moment; it sends
\* exactly one.  clearToken, the clock, the answers of both endpoints and
\* the steps of a call after its start send none.
LazyRefreshOnly ==
    /\ nFetch = 0
    /\ [][nFetch' # nFetch =>
            /\ nFetch' = nFetch + 1
            /\ event'.type = "invoke"
            /\ calls[event'.id].pc = "idle"
            /\ calls'[event'.id].pc = "fetchToken"
            /\ tokenState = null \/ now >= tokenState.expiresAt - 60000
            /\ tokenState' = tokenState]_vars

\* a second token request was sent by a call that found the token expired
LazyRefreshOnlyWitness ==
    /\ event.type = "invoke"
    /\ event.tokenState # null
    /\ event.now >= event.tokenState.expiresAt - 60000
    /\ calls[event.id].pc = "fetchToken"
    /\ nFetch = 2

\* C20: tokenState changes only when a token response inside 2xx is
\* stored, to the token state of that response, and when clearToken is
\* called, to null.  Sending a resource request and receiving any resource
\* response (2xx, or outside 2xx, 401 included) or none leave it as it is,
\* and every request goes to the base URL the client was constructed with.
TokenStateFrame ==
    /\ [](\A c \in Slots : \A i \in DOMAIN calls[c].requests :
            calls[c].requests[i].url[1] = FhirBaseUrl)
    /\ [][/\ tokenState' # tokenState =>
                \/ /\ event'.type = "store"
                   /\ calls[event'.id].pc = "fetchToken"
                   /\ event'.response.status \in 200..299
                   /\ tokenState'.accessToken = event'.response.data.access_token
                \/ /\ event'.type = "clear"
                   /\ tokenState' = null
          /\ \A c \in Slots :
                calls[c].pc \in {"gotToken", "fetchResource"}
                    /\ calls'[c] # calls[c]
                    => tokenState' = tokenState]_vars

\* a resource request was answered 401 and the token is still cached
TokenStateFrameWitness ==
    /\ event.type = "end" /\ event.call.pc = "fetchResource"
    /\ event.call.response[1] = [status |-> 401, text |-> TextPlain]
    /\ tokenState # null
    /\ event.call.token = Given(tokenState.accessToken)

\* no token is cached, or the cached one is within 60000 ms of its expiry
Stale == tokenState = null \/ now >= tokenState.expiresAt - 60000

\* C21: a token request answered outside 2xx leaves tokenState as it was:
\* absent stays absent, and an expired token stays cached.  The cache is
\* then still stale, it stays stale until a token response is stored, and
\* a call that starts while it is stale sends a new token request, which
\* can be answered with a token.
FailedFetchKeepsState ==
    /\ [](event.type = "end" /\ event.call.pc = "fetchToken" =>
            /\ event.result.kind = "throw"
            /\ Stale)
    /\ [][/\ \A c \in Slots :
                calls[c].pc = "fetchToken" /\ calls'[c].pc = "done"
                    => tokenState' = tokenState
          /\ Stale /\ ~Stale' => event'.type = "store"
          /\ Stale /\ event'.type = "invoke" =>
                /\ calls'[event'.id].pc = "fetchToken"
                /\ nFetch' = nFetch + 1]_vars

\* the token request of the second call was answered 500 while the
\* expired token of the first call was cached, and that token still is
FailedFetchKeepsStateWitness ==
    /\ event.type = "end" /\ event.id = 2
    /\ event.call.pc = "fetchToken"
    /\ event.call.response[1].status = 500
    /\ tokenState # null
    /\ tokenState.accessToken = "tok1"
    /\ now >= tokenState.expiresAt

-----------------------------------------------------------------------------
(* OrganizationService: properties checked under SpecService.              *)

\* the names of the headers of a request
HeaderNames(request) == DOMAIN request \ {"method", "url"}
\* what a caller can tell of a result: the decoded value, or the kind of
\* the error
Told(result) ==
    IF result.kind = "return" THEN result ELSE Throw(result.error.name)

\* C12: for every name or id and every answer of the resource endpoint, a
\* method of OrganizationService sends the request (URL, method, headers)
\* and has the outcome (decoded value or kind of error) of the get of the
\* Organization builder: byName(name) those of get({queryParams: {name}}),
\* byId(id) those of get({pathParams: id}).
ServiceAddsNothing ==
    event.type = "service" /\ event.service # undefined =>
    LET service == event.service[1]
        builder == event.builder[1]
    IN  /\ service.request.method = builder.request.method
        /\ Cat(service.request.url) = Cat(builder.request.url)
        /\ HeaderNames(service.request) = HeaderNames(builder.request)
        /\ service.request.Authorization = builder.request.Authorization
        /\ Told(service.result) = Told(builder.result)

\* byId is the get of the builder with the id, request and result alike
ById ==
    event.type = "service" /\ event.service # undefined /\ event.method = "byId"
        => event.service = event.builder

-----------------------------------------------------------------------------
(* buildUrl: properties checked under SpecUrl.  The URL that was built is  *)
(* taken apart again and compared with the arguments.                      *)

Encoded == {"%20", "%21", "%26", "%2B", "%2C", "%2F", "%3D", "%3F"}
\* the character a percent code stands for
Decoded(code) ==
    CHOOSE ch \in {" ", "!", "&", "+", ",", "/", "=", "?"} : PercentCode(ch) = code
\* decodeURIComponent, piece by piece
UriDecode(pieces) ==
    [i \in DOMAIN pieces |->
        IF pieces[i] \in Encoded THEN Decoded(pieces[i]) ELSE pieces[i]]
\* the decoding of a name or a value of a query string
FormDecode(pieces) ==
    [i \in DOMAIN pieces |->
        IF pieces[i] = "+" THEN " "
        ELSE IF pieces[i] \in Encoded THEN Decoded(pieces[i]) ELSE pieces[i]]

\* the position of the first sep in s, or 0
First(s, sep) ==
    IF \E i \in DOMAIN s : s[i] = sep
    THEN CHOOSE i \in DOMAIN s : s[i] = sep /\ \A j \in 1..(i - 1) : s[j] # sep
    ELSE 0
RECURSIVE Split(_, _)
\* the parts of s between the occurrences of sep
Split(s, sep) ==
    IF First(s, sep) = 0 THEN <<s>>
    ELSE <<SubSeq(s, 1, First(s, sep) - 1)>>
            \o Split(SubSeq(s, First(s, sep) + 1, Len(s)), sep)

\* the name=value occurrences of a query string, decoded
Occurrences(query) ==
    IF query = <<>> THEN <<>>
    ELSE LET parts == Split(query, "&")
         IN  [k \in DOMAIN parts |->
                 LET pair == Split(parts[k], "=")
                 IN  IF Len(pair) = 2
                     THEN <<FormDecode(pair[1]), FormDecode(pair[2])>>
                     ELSE <<"malformed", parts[k]>>]

RECURSIVE Expected(_)
\* the occurrences the mapping asks for: one per scalar, one per element
\* of a list, in the order of the mapping
Expected(entries) ==
    IF entries = <<>> THEN <<>>
    ELSE LET name == Head(entries)[1]
             value == Head(entries)[2]
         IN  (IF value.t = "array"
              THEN [i \in DOMAIN value.a |-> <<name, value.a[i].s>>]
              ELSE <<(<<name, String(value)>>)>>)
             \o Expected(Tail(entries))

\* C8: the URL is baseUrl "/" resourceType, then "/" and the encoded id
\* when an id is given, then "?" and the query when the mapping has an
\* entry.  An id is given when pathParams is a string that is not empty:
\* undefined and "" add no segment.  The query has one name=value
\* occurrence per scalar and one per element of a list, in the order of
\* the mapping; an absent or empty mapping adds no "?".
UrlConstruction ==
    event.type = "buildUrl" /\ event.url # undefined =>
    LET url == event.url[1]
        rest == SubSeq(url, 4, Len(url))
        mark == First(rest, "?")
        path == IF mark = 0 THEN rest ELSE SubSeq(rest, 1, mark - 1)
        query == IF mark = 0 THEN <<>> ELSE SubSeq(rest, mark + 1, Len(rest))
        idGiven == event.pathParams # undefined /\ event.pathParams[1] # <<>>
        mapped == event.queryParams # undefined /\ event.queryParams[1] # <<>>
    IN  /\ SubSeq(url, 1, 3) = <<event.builder.baseUrl, "/", event.builder.resourceType>>
        /\ IF idGiven
           THEN /\ Head(path) = "/"
                /\ "/" \notin Range(Tail(path))
                /\ UriDecode(Tail(path)) = event.pathParams[1]
           ELSE path = <<>>
        /\ mark # 0 <=> mapped
        /\ mapped => Occurrences(query) = Expected(event.queryParams[1])
        /\ event.builder = [baseUrl |-> "https://x/fhir", resourceType |-> "Patient"] =>
              /\ event.pathParams = Given(Id123) /\ event.queryParams = undefined
                    => Cat(url) = "https://x/fhir/Patient/123"
              /\ event.pathParams = undefined
                    /\ event.queryParams =
                          Given(<< <<KName, John>>,
                                   <<KTag, Arr(<<Str(<<"a">>), Str(<<"b">>)>>)>> >>)
                    => Cat(url) = "https://x/fhir/Patient?name=John&tag=a&tag=b"

\* the URL of the search for name John with the tags a and b was built
UrlConstructionWitness ==
    /\ event.type = "buildUrl" /\ event.url # undefined
    /\ event.pathParams = undefined
    /\ event.queryParams # undefined /\ Len(event.queryParams[1]) = 2
    /\ Cat(event.url[1]) = "https://x/fhir/Patient?name=John&tag=a&tag=b"

-----------------------------------------------------------------------------
(* The error constructor: properties checked under SpecOutcome.            *)

\* C9: the message of a FhirOperationOutcomeError is the diagnostics of the
\* first issue when it has one, otherwise the text of the details of the
\* first issue when it has one, otherwise "FHIR OperationOutcome error",
\* which it also is when the payload has no issue or an empty list of
\* issues; the error has the payload and the status it was built from.
MessageDerivation ==
    event.type = "construct" /\ event.error # undefined =>
    LET payload == event.operationOutcome.obj
        error == event.error[1]
        hasFirst == "issue" \in DOMAIN payload /\ Len(payload.issue.arr) > 0
        first == payload.issue.arr[1].obj
        hasDiagnostics ==
            /\ hasFirst /\ "diagnostics" \in DOMAIN first
            /\ first.diagnostics.j = "string"
        hasDetailsText ==
            /\ hasFirst /\ "details" \in DOMAIN first
            /\ "text" \in DOMAIN first.details.obj
    IN  /\ error.message =
              IF hasDiagnostics THEN <<first.diagnostics.str>>
              ELSE IF hasDetailsText THEN <<first.details.obj.text.str>>
              ELSE <<"FHIR OperationOutcome error">>
        /\ error.operationOutcome = event.operationOutcome
        /\ error.status = event.status
        /\ event.operationOutcome = JsonValue(TextNotFound) /\ event.status = 404
              => error.message = <<"not found">>

\* an error was built from an issue that has diagnostics and details text
MessageDerivationWitness ==
    /\ event.type = "construct" /\ event.error # undefined
    /\ event.operationOutcome =
          OutcomeOf(JArr(<<Issue(JStr("bad id"), JObj([text |-> JStr("invalid")]))>>))
    /\ event.status = 422
    /\ event.error[1].message = <<"bad id">>

-----------------------------------------------------------------------------
(* Completion: properties checked under SpecLive.                          *)

\* call c has a request in flight
Waiting(c) == calls[c].pc \in {"fetchToken", "fetchResource"}

\* C23: a call whose own requests are eventually settled ends, whatever
\* becomes of the requests of the other calls, and it ends by returning a
\* value or by throwing an error; a call with a request in flight takes no
\* step until that request is settled, neither when the clock advances nor
\* when the token is cleared, so it never ends if the request never is.
Completion ==
    /\ \A c \in Slots :
          WF_vars(Answer(c)) =>
              (calls[c].pc \notin {"idle", "done"} ~> calls[c].pc = "done")
    /\ [](event.type = "end" =>
            /\ calls[event.id].pc = "done"
            /\ event.result.kind \in {"return", "throw"})
    /\ [][\A c \in Slots :
            Waiting(c) /\ calls'[c] # calls[c] =>
                /\ event'.type \in {"store", "end"}
                /\ event'.id = c
                /\ IF event'.type = "store"
                   THEN calls'[c].response = Given(event'.response)
                   ELSE event'.call.response # undefined]_vars

\* the get of the second call returned its resource after the clock had
\* advanced, while the token request of the first call was still unanswered
CompletionWitness ==
    /\ calls[1].pc = "fetchToken"
    /\ event.type = "end" /\ event.id = 2
    /\ event.call.op = "get"
    /\ event.result.kind = "return"
    /\ now > StartTime

====
